---- MODULE Spec2Model ----
(***************************************************************************)
(* Model of src/sds.py: the SDS extraction pipeline.                       *)
(*                                                                         *)
(*   extract_text_from_pdf        text recovery with the OCR fallback      *)
(*   extract_sds_fields_with_gpt  field extraction through the model call  *)
(*   main                         file selection, the batch loop, the table*)
(*                                                                         *)
(* A Python str is a sequence of characters (or of opaque tokens where the *)
(* code only concatenates and compares); the empty string is << >>.        *)
(* A Python dict is the sequence of its <<key, value>> items in insertion  *)
(* order.                                                                  *)
(***************************************************************************)
EXTENDS Integers, Sequences, FiniteSets, TLC

VARIABLES
    pc,                   \* position of the running call
    zip_names,            \* z.namelist()
    pdf_files,            \* main: the selected entries
    idx,                  \* main: number of entries the loop has processed
    pdf_content,          \* the document handed to extract_text_from_pdf
    recovery,             \* what the last extract_text_from_pdf call did
    text,                 \* the text handed to extract_sds_fields_with_gpt
    reply,                \* what the model call did in the last extraction
    extraction,           \* what the last extract_sds_fields_with_gpt call did
    extracted_fields,     \* main: the record of the current entry
    parsing_notes,        \* main: its Parsing Notes
    all_extracted_fields, \* main: the rows collected so far
    st,                   \* the streamlit calls: the diagnostic stream
    columns               \* main: df.columns after the reordering

vars == <<pc, zip_names, pdf_files, idx, pdf_content, recovery, text, reply,
          extraction, extracted_fields, parsing_notes, all_extracted_fields,
          st, columns>>

----------------------------------------------------------------------------
(* Bounds of the model *)

MaxPages == 2
MaxKeys == 2
MaxEntries == 3

----------------------------------------------------------------------------
(* Python values *)

None == <<"<None>">>

NL == <<"\n">>

Whitespace == {" ", "\n"}

Truthy(s) == s # None /\ Len(s) > 0

RECURSIVE lstrip(_)
lstrip(s) ==
    IF s = <<>> THEN <<>>
    ELSE IF Head(s) \in Whitespace THEN lstrip(Tail(s)) ELSE s

RECURSIVE rstrip(_)
rstrip(s) ==
    IF s = <<>> THEN <<>>
    ELSE IF s[Len(s)] \in Whitespace THEN rstrip(SubSeq(s, 1, Len(s) - 1)) ELSE s

strip(s) == rstrip(lstrip(s))

UpperToLower ==
    [c \in {"A", "B", "C", "D", "F", "M", "O", "P", "S", "X"} |->
        CASE c = "A" -> "a" [] c = "B" -> "b" [] c = "C" -> "c" [] c = "D" -> "d"
          [] c = "F" -> "f" [] c = "M" -> "m" [] c = "O" -> "o" [] c = "P" -> "p"
          [] c = "S" -> "s" [] c = "X" -> "x"]

lower(s) == [i \in 1..Len(s) |-> IF s[i] \in DOMAIN UpperToLower THEN UpperToLower[s[i]] ELSE s[i]]

endswith(s, suffix) ==
    /\ Len(s) >= Len(suffix)
    /\ SubSeq(s, Len(s) - Len(suffix) + 1, Len(s)) = suffix

startswith(s, prefix) ==
    /\ Len(s) >= Len(prefix)
    /\ SubSeq(s, 1, Len(prefix)) = prefix

\* Python's  sub in s
contains(s, sub) ==
    \E i \in 1..(Len(s) + 1) :
        /\ i + Len(sub) - 1 <= Len(s)
        /\ SubSeq(s, i, i + Len(sub) - 1) = sub

\* os.path.basename: what follows the last "/"
RECURSIVE basename(_)
basename(path) ==
    IF \E i \in 1..Len(path) : path[i] = "/"
    THEN basename(Tail(path))
    ELSE path

\* sep.join(items), items and sep being strings
RECURSIVE join(_, _)
join(items, sep) ==
    IF items = <<>> THEN <<>>
    ELSE IF Len(items) = 1 THEN items[1]
    ELSE items[1] \o sep \o join(Tail(items), sep)

\* one streamlit call
Say(level, msg, name) == [level |-> level, msg |-> msg, name |-> name]

----------------------------------------------------------------------------
(* dict operations *)

EmptyDict == [type |-> "dict", items |-> <<>>]

keys(items) == [i \in 1..Len(items) |-> items[i][1]]

HasKey(items, k) == \E i \in 1..Len(items) : items[i][1] = k

Get(items, k) == items[CHOOSE i \in 1..Len(items) : items[i][1] = k][2]

\* d[k] = v: an existing key keeps its place, a new key goes last
SetItem(items, k, v) ==
    IF HasKey(items, k)
    THEN [i \in 1..Len(items) |-> IF items[i][1] = k THEN <<k, v>> ELSE items[i]]
    ELSE Append(items, <<k, v>>)

----------------------------------------------------------------------------
(* Documents.  A page carries what page.extract_text() returns for it and *)
(* what pytesseract.image_to_string returns for its raster image;          *)
(* convert_from_bytes yields one image per page, in page order.            *)

OcrRaises == <<"<raises>">>

PageTexts == {None, <<>>, <<" ">>, <<"a">>, <<"b">>}

OcrTexts == {<<>>, <<"c">>, <<"d">>, OcrRaises}

Pages == [text : PageTexts, ocr : OcrTexts]

Docs ==
    [corrupt : {TRUE}, pages : {<<>>}]
    \cup [corrupt : {FALSE}, pages : UNION {[1..n -> Pages] : n \in 0..MaxPages}]

\* the text-layer loop looking at the first page only
TextLayerLoop_FirstPageOnly(pages, acc) ==
    IF pages = <<>> THEN acc
    ELSE LET page_text == Head(pages).text
         IN  IF Truthy(page_text) /\ Truthy(strip(page_text))
             THEN [text |-> acc.text \o page_text \o NL, is_text_based |-> TRUE]
             ELSE acc

\* lines 49-53: the text-layer loop; acc is <<text, is_text_based>>
RECURSIVE TextLayerLoop(_, _)
TextLayerLoop(pages, acc) ==
    IF pages = <<>> THEN acc
    ELSE LET page_text == Head(pages).text
         IN  TextLayerLoop(Tail(pages),
                 IF Truthy(page_text) /\ Truthy(strip(page_text))
                 THEN [text |-> acc.text \o page_text \o NL, is_text_based |-> TRUE]
                 ELSE acc)

\* the OCR loop leaving out the images without text
RECURSIVE OcrLoop_SkipsBlankImages(_, _, _)
OcrLoop_SkipsBlankImages(pages, i, acc) ==
    IF i > Len(pages) THEN acc
    ELSE LET extracted_text == pages[i].ocr
         IN  IF extracted_text = OcrRaises
             THEN [acc EXCEPT !.calls = Append(@, i), !.raised = TRUE]
             ELSE OcrLoop_SkipsBlankImages(pages, i + 1,
                      IF extracted_text = <<>>
                      THEN [acc EXCEPT !.calls = Append(@, i)]
                      ELSE [acc EXCEPT !.text = @ \o extracted_text \o NL,
                                       !.calls = Append(@, i)])

\* lines 60-62: the OCR loop over the images; calls lists the pages handed
\* to image_to_string, raised says that one of the calls raised
RECURSIVE OcrLoop(_, _, _)
OcrLoop(pages, i, acc) ==
    IF i > Len(pages) THEN acc
    ELSE LET extracted_text == pages[i].ocr
         IN  IF extracted_text = OcrRaises
             THEN [acc EXCEPT !.calls = Append(@, i), !.raised = TRUE]
             ELSE OcrLoop(pages, i + 1,
                      [acc EXCEPT !.text = @ \o extracted_text \o NL,
                                  !.calls = Append(@, i)])

RecoveryError == Say("error", "Error extracting text from PDF", <<>>)

OcrInfo == Say("info", "PDF is image-based. Performing OCR...", <<>>)

\* extract_text_from_pdf(pdf_content): the value returned, the pages handed
\* to OCR, whether the document was rasterized, and the streamlit calls made
extract_text_from_pdf(doc) ==
    IF doc.corrupt
    THEN [ret |-> None, ocr_calls |-> <<>>, rasterized |-> FALSE,
          st |-> <<RecoveryError>>]
    ELSE LET layer == TextLayerLoop(doc.pages, [text |-> <<>>, is_text_based |-> FALSE])
         IN  IF ~layer.is_text_based
             THEN LET ocr == OcrLoop(doc.pages, 1,
                                 [text |-> <<>>, calls |-> <<>>, raised |-> FALSE])
                  IN  IF ocr.raised
                      THEN [ret |-> None, ocr_calls |-> ocr.calls, rasterized |-> TRUE,
                            st |-> <<OcrInfo, RecoveryError>>]
                      ELSE [ret |-> ocr.text, ocr_calls |-> ocr.calls, rasterized |-> TRUE,
                            st |-> <<OcrInfo>>]
             ELSE [ret |-> layer.text, ocr_calls |-> <<>>, rasterized |-> FALSE,
                   st |-> <<>>]

NoRecovery == [ret |-> None, ocr_calls |-> <<>>, rasterized |-> FALSE, st |-> <<>>]

NoDoc == [corrupt |-> TRUE, pages |-> <<>>]

----------------------------------------------------------------------------
(* The model call and the parsing of its answer *)

FieldSchema ==
    << "Chemical Product", "Manufacturer's Name", "Manufacturer's Country",
       "Language", "SDS Revision Date", "Product Number", "Trade Name",
       "Manufacturer Contact", "Emergency Phone", "Phone Number", "Fax Number",
       "Manufacturer Street", "Manufacturer City", "Manufacturer State",
       "Manufacturer ZIP Code" >>

FieldSet == {FieldSchema[i] : i \in 1..Len(FieldSchema)}

NotSDS == <<"Not SDS">>

Values == {<<>>, <<"x">>, NotSDS}

\* the keys of the short answers the stubbed model gives
ReplyKeys ==
    {FieldSchema[i] : i \in 1..MaxKeys} \cup {"Parsing Notes"}

DistinctKeys(items) ==
    \A i, j \in 1..Len(items) : items[i][1] = items[j][1] => i = j

PartialItems ==
    {items \in UNION {[1..n -> ReplyKeys \X Values] : n \in 0..Cardinality(ReplyKeys)} :
        DistinctKeys(items)}

\* every field, in the order of the prompt, one of them with its own value
FullItems ==
    {[i \in 1..Len(FieldSchema) |->
        <<FieldSchema[i], IF FieldSchema[i] = k THEN v ELSE <<"x">> >>] :
        k \in FieldSet, v \in Values}

JsonObjects == [type : {"dict"}, items : PartialItems \cup FullItems]

JsonOthers == [type : {"list", "str"}, items : {<<>>}]

JsonValues == JsonObjects \cup JsonOthers

NoJson == [type |-> "none", items |-> <<>>]

\* pieces of the text the model answers with
Tok(t) == [t |-> t, v |-> NoJson]

JsonTok(v) == [t |-> "json", v |-> v]

Payloads == {Tok("garbage")} \cup {JsonTok(v) : v \in JsonValues}

Wrapped(p) ==
    { <<p>>,
      <<Tok("ws"), p, Tok("ws")>>,
      <<Tok("fence_json"), Tok("ws"), p, Tok("ws"), Tok("fence")>> }

Contents == {<<>>} \cup UNION {Wrapped(p) : p \in Payloads}

Replies == {[kind |-> "raise", content |-> <<>>]} \cup [kind : {"content"}, content : Contents]

NoReply == [kind |-> "none", content |-> <<>>]

RECURSIVE lstrip_ws(_)
lstrip_ws(s) ==
    IF s = <<>> THEN <<>>
    ELSE IF Head(s).t = "ws" THEN lstrip_ws(Tail(s)) ELSE s

RECURSIVE rstrip_ws(_)
rstrip_ws(s) ==
    IF s = <<>> THEN <<>>
    ELSE IF s[Len(s)].t = "ws" THEN rstrip_ws(SubSeq(s, 1, Len(s) - 1)) ELSE s

\* line 131: content.strip()
strip_ws(s) == rstrip_ws(lstrip_ws(s))

\* line 134: replace('```json', '').replace('```', '')
remove_fences(s) == SelectSeq(s, LAMBDA tok : tok.t \notin {"fence_json", "fence"})

\* lines 131-134
clean(content) == strip_ws(remove_fences(strip_ws(content)))

\* line 140: json.loads parses a text that is one JSON value and nothing else
json_parses(output) == Len(output) = 1 /\ output[1].t = "json"

json_loads(output) == output[1].v

ExtractionError == Say("error", "Error extracting fields with GPT", <<>>)

\* the handler of lines 150-154 raising again
ExtractionReraised(calls) ==
    [ret |-> EmptyDict, raised |-> TRUE, model_calls |-> calls, st |-> <<ExtractionError>>]

\* lines 150-154
ExtractionFailed(calls) ==
    [ret |-> EmptyDict, raised |-> FALSE, model_calls |-> calls, st |-> <<ExtractionError>>]

\* extract_sds_fields_with_gpt(text), the model call answering reply: the value
\* returned, whether an exception left the function, the number of model
\* calls, and the streamlit calls made
extract_sds_fields_with_gpt(txt, rep) ==
    IF ~Truthy(txt) \/ ~Truthy(strip(txt))
    THEN ExtractionFailed(0)
    ELSE IF rep.kind = "raise"
    THEN ExtractionFailed(1)
    ELSE LET output == clean(rep.content)
         IN  IF json_parses(output)
             THEN [ret |-> json_loads(output), raised |-> FALSE, model_calls |-> 1,
                   st |-> <<>>]
             ELSE [ret |-> EmptyDict, raised |-> FALSE, model_calls |-> 1, st |-> <<>>]

NoExtraction == [ret |-> EmptyDict, raised |-> FALSE, model_calls |-> 0, st |-> <<>>]

----------------------------------------------------------------------------
(* main: the archive and the selection of its entries *)

\* "A.pdf"
NameA == <<"A", ".", "p", "d", "f">>

\* "__MACOSX/A.pdf"
NameMacDir == <<"_", "_", "M", "A", "C", "O", "S", "X", "/", "A", ".", "p", "d", "f">>

\* "._A.pdf"
NameFork == <<".", "_", "A", ".", "p", "d", "f">>

\* "notes.txt"
NameNotes == <<"n", "o", "t", "e", "s", ".", "t", "x", "t">>

\* "d/B.PDF"
NameUpper == <<"d", "/", "B", ".", "P", "D", "F">>

\* "x__macosx.pdf"
NameSubstring == <<"x", "_", "_", "m", "a", "c", "o", "s", "x", ".", "p", "d", "f">>

\* "d/._B.pdf"
NameDirFork == <<"d", "/", ".", "_", "B", ".", "p", "d", "f">>

\* "C.pdf"
NameC == <<"C", ".", "p", "d", "f">>

Names == {NameA, NameMacDir, NameFork, NameNotes, NameUpper, NameSubstring, NameDirFork, NameC}

IsInjective(seq) == \A i, j \in 1..Len(seq) : seq[i] = seq[j] => i = j

\* the name lists of the archives: no name twice
Archives ==
    {names \in UNION {[1..n -> Names] : n \in 0..MaxEntries} : IsInjective(names)}

DotPdf == <<".", "p", "d", "f">>

MacOsxLower == <<"_", "_", "m", "a", "c", "o", "s", "x">>

ForkPrefix == <<".", "_">>

\* lines 292-294: the condition of the comprehension
is_selected(file) ==
    /\ endswith(lower(file), DotPdf)
    /\ ~contains(lower(file), MacOsxLower)
    /\ ~startswith(basename(file), ForkPrefix)

\* lines 290-295
select_pdf_files(namelist) == SelectSeq(namelist, is_selected)

----------------------------------------------------------------------------
(* main: one entry of the batch loop *)

FileNameKey == "Scanned SDS Document File Name"

NotesKey == "Parsing Notes"

\* line 315
HasSentinel(items) == \E i \in 1..Len(items) : items[i][2] = NotSDS

\* line 317
Blanked(items) == [i \in 1..Len(items) |-> <<items[i][1], <<>> >>]

\* line 321
missing_fields(items) ==
    keys(SelectSeq(items, LAMBDA item : item[2] = <<>>))

\* lines 313-323: the record and its Parsing Notes
annotate(items) ==
    IF HasSentinel(items)
    THEN [fields |-> Blanked(items), notes |-> <<"Not an SDS">>]
    ELSE LET missing == missing_fields(items)
         IN  IF missing # <<>>
             THEN [fields |-> items,
                   notes |-> <<"Missing: ">> \o join([i \in 1..Len(missing) |-> <<missing[i]>>], <<", ">>)]
             ELSE [fields |-> items, notes |-> <<>>]

\* lines 325-327
make_row(items, notes, file) ==
    SetItem(SetItem(items, FileNameKey, basename(file)), NotesKey, notes)

\* lines 303-332: what one iteration does for entry file, the archive giving
\* content for it and the model call answering rep
process_entry(file, content, rep) ==
    LET progress == Say("write", "Processing", basename(file))
        rec == extract_text_from_pdf(content)
        txt == rec.ret
    IN  IF Truthy(txt)
        THEN LET ext == extract_sds_fields_with_gpt(txt, rep)
                 failure == Say("error", "Error processing", basename(file))
             IN  IF ext.raised
                 THEN [recovery |-> rec, extraction |-> ext, called |-> TRUE,
                       fields |-> extracted_fields, notes |-> parsing_notes,
                       rows |-> <<>>, st |-> <<progress>> \o rec.st \o ext.st \o <<failure>>]
                 ELSE IF ext.ret.type # "dict"
                 THEN \* line 315: values() of a list or of a str raises
                      [recovery |-> rec, extraction |-> ext, called |-> TRUE,
                       fields |-> ext.ret, notes |-> <<>>,
                       rows |-> <<>>, st |-> <<progress>> \o rec.st \o ext.st \o <<failure>>]
                 ELSE LET ann == annotate(ext.ret.items)
                          row == make_row(ann.fields, ann.notes, file)
                      IN  [recovery |-> rec, extraction |-> ext, called |-> TRUE,
                           fields |-> [type |-> "dict", items |-> row], notes |-> ann.notes,
                           rows |-> <<row>>, st |-> <<progress>> \o rec.st \o ext.st]
        ELSE [recovery |-> rec, extraction |-> extraction, called |-> FALSE,
              fields |-> extracted_fields, notes |-> parsing_notes,
              rows |-> <<>>,
              st |-> <<progress>> \o rec.st
                     \o <<Say("error", "Failed to extract text from", basename(file))>>]

\* pd.DataFrame(rows).columns: the keys in the order they first appear
RECURSIVE frame_columns(_, _)
frame_columns(rows, cols) ==
    IF rows = <<>> THEN cols
    ELSE LET ks == keys(Head(rows))
             new == SelectSeq(ks, LAMBDA k : \A i \in 1..Len(cols) : cols[i] # k)
         IN  frame_columns(Tail(rows), cols \o new)

\* lines 338-340
reorder(cols) ==
    <<FileNameKey>> \o SelectSeq(cols, LAMBDA k : k # FileNameKey)

----------------------------------------------------------------------------
(* The inputs of the batch runs *)

Page(t, o) == [text |-> t, ocr |-> o]

Doc(pages) == [corrupt |-> FALSE, pages |-> pages]

\* the documents of the batch: unreadable bytes, a document without pages, a
\* text page, a scanned page, a scanned page without text, a failing OCR
BatchDocs ==
    { NoDoc,
      Doc(<<>>),
      Doc(<<Page(<<"a">>, <<"c">>)>>),
      Doc(<<Page(<<>>, <<"c">>)>>),
      Doc(<<Page(<<>>, <<>>)>>),
      Doc(<<Page(<<>>, OcrRaises)>>) }

Answer(v) == [kind |-> "content", content |-> <<JsonTok(v)>>]

Object(items) == [type |-> "dict", items |-> items]

\* the model calls of the batch: a failing call, a text that is no JSON, a
\* JSON list, and objects: empty, the sentinel, complete, one field empty
BatchReplies ==
    { [kind |-> "raise", content |-> <<>>],
      [kind |-> "content", content |-> <<Tok("garbage")>>],
      Answer([type |-> "list", items |-> <<>>]),
      Answer(Object(<<>>)),
      Answer(Object(<< <<NotesKey, NotSDS>> >>)),
      Answer(Object([i \in 1..Len(FieldSchema) |-> <<FieldSchema[i], <<"x">> >>])),
      Answer(Object(<< <<FieldSchema[1], <<>> >>, <<FieldSchema[2], <<"x">> >> >>)) }

\* the texts extract_sds_fields_with_gpt is called with
Texts == {None, <<>>, <<" ">>, NL, <<"a">>, <<" ", "a", "\n">>}

----------------------------------------------------------------------------
(* main *)

Idle ==
    /\ pdf_files = <<>>
    /\ idx = 0
    /\ recovery = NoRecovery
    /\ extraction = NoExtraction
    /\ extracted_fields = EmptyDict
    /\ parsing_notes = <<>>
    /\ all_extracted_fields = <<>>
    /\ st = <<>>
    /\ columns = <<>>

Init ==
    /\ pc = "main"
    /\ zip_names \in Archives
    /\ pdf_content = NoDoc
    /\ text = None
    /\ reply = NoReply
    /\ Idle

\* lines 284-300
SelectFiles ==
    /\ pc = "main"
    /\ pdf_files' = select_pdf_files(zip_names)
    /\ IF pdf_files' = <<>>
       THEN /\ st' = st \o <<Say("write", "Processing the uploaded ZIP file...", <<>>),
                             Say("error", "No PDF files found in the ZIP archive.", <<>>)>>
            /\ pc' = "done"
       ELSE /\ st' = Append(st, Say("write", "Processing the uploaded ZIP file...", <<>>))
            /\ pc' = "loop"
    /\ all_extracted_fields' = <<>>
    /\ UNCHANGED <<zip_names, idx, pdf_content, recovery, text, reply, extraction,
                   extracted_fields, parsing_notes, columns>>

\* lines 302-332: one iteration of the loop
ProcessEntry(content, rep) ==
    /\ pc = "loop"
    /\ idx < Len(pdf_files)
    /\ LET out == process_entry(pdf_files[idx + 1], content, rep)
       IN  /\ pdf_content' = content
           /\ recovery' = out.recovery
           /\ text' = out.recovery.ret
           /\ extraction' = out.extraction
           /\ reply' = IF out.called /\ out.extraction.model_calls > 0 THEN rep ELSE NoReply
           /\ extracted_fields' = out.fields
           /\ parsing_notes' = out.notes
           /\ all_extracted_fields' = all_extracted_fields \o out.rows
           /\ st' = st \o out.st
    /\ idx' = idx + 1
    /\ UNCHANGED <<pc, zip_names, pdf_files, columns>>

\* lines 333-355
Finish ==
    /\ pc = "loop"
    /\ idx = Len(pdf_files)
    /\ IF all_extracted_fields # <<>>
       THEN /\ columns' = reorder(frame_columns(all_extracted_fields, <<>>))
            /\ st' = Append(st, Say("write", "Extracted fields from all SDS files:", <<>>))
       ELSE /\ columns' = columns
            /\ st' = Append(st, Say("error", "Failed to extract fields from any SDS files.", <<>>))
    /\ pc' = "done"
    /\ UNCHANGED <<zip_names, pdf_files, idx, pdf_content, recovery, text, reply,
                   extraction, extracted_fields, parsing_notes, all_extracted_fields>>

Next ==
    \/ SelectFiles
    \/ \E content \in BatchDocs, rep \in BatchReplies : ProcessEntry(content, rep)
    \/ Finish

Spec == Init /\ [][Next]_vars

----------------------------------------------------------------------------
(* main on an archive of one entry, the model call answering anything *)

InitRow ==
    /\ pc = "main"
    /\ zip_names \in {names \in Archives : Len(names) = 1}
    /\ pdf_content = NoDoc
    /\ text = None
    /\ reply = NoReply
    /\ Idle

NextRow ==
    \/ SelectFiles
    \/ \E content \in BatchDocs, rep \in Replies : ProcessEntry(content, rep)
    \/ Finish

SpecRow == InitRow /\ [][NextRow]_vars

----------------------------------------------------------------------------
(* extract_text_from_pdf called on any document *)

InitRecover ==
    /\ pc = "recover"
    /\ zip_names = <<>>
    /\ pdf_content \in Docs
    /\ text = None
    /\ reply = NoReply
    /\ Idle

CallRecover ==
    /\ pc = "recover"
    /\ recovery' = extract_text_from_pdf(pdf_content)
    /\ st' = st \o recovery'.st
    /\ pc' = "recovered"
    /\ UNCHANGED <<zip_names, pdf_files, idx, pdf_content, text, reply, extraction,
                   extracted_fields, parsing_notes, all_extracted_fields, columns>>

NextRecover == CallRecover

SpecRecover == InitRecover /\ [][NextRecover]_vars

----------------------------------------------------------------------------
(* extract_sds_fields_with_gpt called on any text, the model doing anything *)

InitExtract ==
    /\ pc = "extract"
    /\ zip_names = <<>>
    /\ pdf_content = NoDoc
    /\ text \in Texts
    /\ reply \in Replies
    /\ Idle

CallExtract ==
    /\ pc = "extract"
    /\ extraction' = extract_sds_fields_with_gpt(text, reply)
    /\ st' = st \o extraction'.st
    /\ pc' = IF extraction'.raised THEN "raised" ELSE "extracted"
    /\ UNCHANGED <<zip_names, pdf_files, idx, pdf_content, recovery, text, reply,
                   extracted_fields, parsing_notes, all_extracted_fields, columns>>

NextExtract == CallExtract

SpecExtract == InitExtract /\ [][NextExtract]_vars

----------------------------------------------------------------------------
(* Properties of extract_text_from_pdf (SpecRecover) *)

HasText(page) == page.text # None /\ strip(page.text) # <<>>

\* the text layers of the pages that have one, in page order
TextLayers(doc) ==
    LET with == SelectSeq(doc.pages, HasText)
    IN  [i \in 1..Len(with) |-> with[i].text]

\* the OCR results of all pages, in page order
OcrResults(doc) == [i \in 1..Len(doc.pages) |-> doc.pages[i].ocr]

TextBased(doc) == ~doc.corrupt /\ \E i \in 1..Len(doc.pages) : HasText(doc.pages[i])

ImageBased(doc) == ~doc.corrupt /\ \A i \in 1..Len(doc.pages) : ~HasText(doc.pages[i])

\* every item followed by a newline
Terminated(items) == IF items = <<>> THEN <<>> ELSE join(items, NL) \o NL

\* C6 as stated: a document with a text layer on some page is never handed to
\* OCR, and the text returned is the page texts joined by newlines, in page
\* order, the pages without text left out.
C6_TextJoinedByNewlines ==
    (pc = "recovered" /\ TextBased(pdf_content)) =>
        /\ recovery.ocr_calls = <<>>
        /\ ~recovery.rasterized
        /\ recovery.ret = join(TextLayers(pdf_content), NL)

\* C6 as amended: a document with a text layer on some page is never handed to
\* OCR, and the text returned is, in page order, every page text followed by a
\* newline (the last one too), the pages without text left out.
C6_TextNewlineTerminated ==
    (pc = "recovered" /\ TextBased(pdf_content)) =>
        /\ recovery.ocr_calls = <<>>
        /\ ~recovery.rasterized
        /\ recovery.ret = Terminated(TextLayers(pdf_content))

\* two text pages: the text of both, in page order, and no OCR
C6_Witness ==
    /\ pc = "recovered"
    /\ Len(pdf_content.pages) = 2
    /\ pdf_content.pages[1].text = <<"b">>
    /\ pdf_content.pages[2].text = <<"a">>
    /\ recovery.ret = <<"b", "\n", "a", "\n">>
    /\ recovery.ocr_calls = <<>>

----------------------------------------------------------------------------
(* Properties of extract_sds_fields_with_gpt (SpecExtract) *)

\* C1: the mapping returned holds every key of FieldSchema.
C1_EveryFieldSchemaKey ==
    pc = "extracted" =>
        /\ extraction.ret.type = "dict"
        /\ \A k \in FieldSet : HasKey(extraction.ret.items, k)

\* the answer, its fences and surrounding blanks aside, is not one JSON value
NotJson(content) ==
    LET body == SelectSeq(content, LAMBDA tok : tok.t \notin {"ws", "fence", "fence_json"})
    IN  ~(Len(body) = 1 /\ body[1].t = "json")

ModelFailed == reply.kind = "raise" \/ (reply.kind = "content" /\ NotJson(reply.content))

----------------------------------------------------------------------------
(* Properties of main (Spec, SpecRow) *)

\* the directories of a path: its "/"-separated parts but the last
RECURSIVE Directories(_, _)
Directories(path, part) ==
    IF path = <<>> THEN <<>>
    ELSE IF Head(path) = "/" THEN <<part>> \o Directories(Tail(path), <<>>)
    ELSE Directories(Tail(path), Append(part, Head(path)))

UnderMetadataDirectory(file) ==
    LET dirs == Directories(file, <<>>)
    IN  \E i \in 1..Len(dirs) : lower(dirs[i]) = <<"_", "_", "m", "a", "c", "o", "s", "x">>

Eligible(file) ==
    /\ endswith(lower(file), <<".", "p", "d", "f">>)
    /\ ~UnderMetadataDirectory(file)
    /\ ~startswith(basename(file), <<".", "_">>)

\* C8: the entries selected are exactly those whose name ends in ".pdf"
\* whatever the case, that lie under no __MACOSX directory and whose base name
\* does not begin with "._", in the order of the archive.
C8_SelectionIsEligibleEntries ==
    pc # "main" => pdf_files = SelectSeq(zip_names, Eligible)

\* one iteration of the batch loop
EntryStep == pc = "loop" /\ idx' = idx + 1

Emitted == SubSeq(st', Len(st) + 1, Len(st'))

\* the errors the iteration reported against its entry's name
EntryErrors ==
    SelectSeq(Emitted, LAMBDA m : m.level = "error" /\ m.name = basename(pdf_files[idx + 1]))

\* C2: an entry whose text recovery returned text adds exactly one row, its
\* own, whatever the field extraction does.
C2_TextGivesOneRow ==
    [][(EntryStep /\ Truthy(text')) =>
          /\ Len(all_extracted_fields') = Len(all_extracted_fields) + 1
          /\ Get(all_extracted_fields'[Len(all_extracted_fields')], FileNameKey)
                = basename(pdf_files[idx + 1])]_vars

\* C3: an entry whose text recovery fails adds no row and exactly one error
\* against its name, and the loop goes on; the rows grow by one exactly for
\* the entries whose text was recovered.
C3_FailureSkipsOnlyItsEntry ==
    [][EntryStep =>
          /\ ~Truthy(text') =>
                /\ all_extracted_fields' = all_extracted_fields
                /\ Len(EntryErrors) = 1
                /\ pc' = "loop"
          /\ Len(all_extracted_fields') =
                Len(all_extracted_fields) + (IF Truthy(text') THEN 1 ELSE 0)]_vars

\* C10: an entry whose recovered text is blank (nothing but whitespace) is a
\* recovery failure: an error against its name, no row, no model call.
C10_BlankTextIsFailure ==
    [][(EntryStep /\ text' # None /\ strip(text') = <<>>) =>
          /\ all_extracted_fields' = all_extracted_fields
          /\ Len(EntryErrors) >= 1
          /\ reply' = NoReply]_vars

\* the record the model answered with, for the one entry of SpecRow
Answered ==
    /\ idx = 1
    /\ Truthy(text)
    /\ extraction.ret.type = "dict"

\* C4: when a value of the model's record is the sentinel, the row holds the
\* empty string for every field of FieldSchema and "Not an SDS" as its notes.
C4_SentinelBlanksEveryField ==
    (Answered /\ HasSentinel(extraction.ret.items)) =>
        /\ Len(all_extracted_fields) = 1
        /\ \A k \in FieldSet :
              /\ HasKey(all_extracted_fields[1], k)
              /\ Get(all_extracted_fields[1], k) = <<>>
        /\ Get(all_extracted_fields[1], NotesKey) = <<"Not an SDS">>

\* the fields of FieldSchema the record holds an empty string for, in the
\* order of FieldSchema
EmptyFields(items) ==
    SelectSeq(FieldSchema, LAMBDA k : HasKey(items, k) /\ Get(items, k) = <<>>)

ExpectedNotes(items) ==
    LET empty == EmptyFields(items)
    IN  IF empty = <<>> THEN <<>>
        ELSE <<"Missing: ">> \o join([i \in 1..Len(empty) |-> <<empty[i]>>], <<", ">>)

\* C5: without the sentinel, the notes of the row are empty when no field of
\* FieldSchema is empty, and otherwise "Missing: " and the empty fields of
\* FieldSchema, in its order, joined by ", ".
C5_NotesListEmptyFields ==
    (Answered /\ ~HasSentinel(extraction.ret.items)) =>
        /\ Len(all_extracted_fields) = 1
        /\ Get(all_extracted_fields[1], NotesKey) = ExpectedNotes(extraction.ret.items)

====
